---- MODULE Spec2Model ----
(***************************************************************************)
(* Model of the prompt library: PromptBuilder (src/src/prompt/builder.py)  *)
(* and PromptTemplate (src/src/prompt/template.py).                        *)
(*                                                                         *)
(* Python strings are sequences of one-character strings, so upper(),      *)
(* join(), str.format() and re.findall() are computed, not assumed.        *)
(* Python dicts stored in a list are references: the heap holds the        *)
(* message dicts and a list is a sequence of heap indices.                 *)
(***************************************************************************)
EXTENDS Integers, Sequences, FiniteSets, TLC

VARIABLES
    messages,   \* PromptBuilder.messages: list of references into heap
    context,    \* PromptBuilder.context: dict key -> value
    heap,       \* the message dicts ever allocated, heap[ref] = [role, content]
    log,        \* history: the (role, content) pairs passed to add_* since construction / clear()
    template,   \* PromptTemplate.template
    defaults,   \* PromptTemplate.defaults
    ctor,       \* history: the arguments PromptTemplate.__init__ was called with
    mutations,  \* history: how many times the caller changed a value build returned
    overridden, \* history: some earlier format/validate call was given overrides
    lastOp,     \* name of the last operation called
    lastArg,    \* argument of the last operation (format selector, overrides, ...)
    result      \* what the last operation returned or raised; the caller holds it

vars == <<messages, context, heap, log, mutations, template, defaults, ctor, overridden,
          lastOp, lastArg, result>>

builderVars == <<messages, context, heap, log>>
templateVars == <<template, defaults, ctor, overridden>>

(***************************************************************************)
(* Bounds                                                                  *)
(***************************************************************************)
\* message dicts allocated over a run (add_* calls plus dicts the caller makes)
MaxObjects == 3
\* length of the exhaustively enumerated template strings
MaxTemplateLen == 4
\* changes the caller makes to the values build returned
MaxMutations == 1

(***************************************************************************)
(* Strings                                                                 *)
(***************************************************************************)
LowerChars == <<"a","b","c","d","e","f","g","h","i","j","k","l","m",
                "n","o","p","q","r","s","t","u","v","w","x","y","z">>
UpperChars == <<"A","B","C","D","E","F","G","H","I","J","K","L","M",
                "N","O","P","Q","R","S","T","U","V","W","X","Y","Z">>

\* the upper-case letter of each ASCII lower-case letter
UpperOf == [c \in { LowerChars[i] : i \in 1..26 } |->
                UpperChars[CHOOSE i \in 1..26 : LowerChars[i] = c]]

\* str.upper() on one character: ASCII lower-case letters change, the rest stay
UpperChar(c) == IF c \in DOMAIN UpperOf THEN UpperOf[c] ELSE c

\* str.upper()
Upper(s) == [i \in 1..Len(s) |-> UpperChar(s[i])]

RECURSIVE Join(_, _)
\* sep.join(parts)
Join(sep, parts) ==
    IF parts = <<>> THEN <<>>
    ELSE IF Len(parts) = 1 THEN parts[1]
    ELSE parts[1] \o sep \o Join(sep, Tail(parts))

\* needle in hay (substring test)
Contains(hay, needle) ==
    \E i \in 0..(Len(hay) - Len(needle)) :
        \A j \in 1..Len(needle) : hay[i + j] = needle[j]

SYSTEM == <<"s","y","s","t","e","m">>
USER == <<"u","s","e","r">>
ASSISTANT == <<"a","s","s","i","s","t","a","n","t">>

FMT_MESSAGES == <<"m","e","s","s","a","g","e","s">>
FMT_STRING == <<"s","t","r","i","n","g">>
FMT_CHAT == <<"c","h","a","t">>

UNKNOWN_FORMAT == <<"U","n","k","n","o","w","n"," ","f","o","r","m","a","t",":"," ">>
SEPARATOR == <<"\n","\n">>
COLON_SPACE == <<":"," ">>

(***************************************************************************)
(* Inputs                                                                  *)
(***************************************************************************)
\* contents passed to add_*
Contents == { <<"h","i">>, <<"Y","o">> }
\* roles passed to add_message: a custom mixed-case role
CustomRoles == { <<"B","o","t">> }
\* format selectors passed to build: the three recognised ones, a wrong-case
\* one, an unknown one and the empty string
Formats == { FMT_MESSAGES, FMT_STRING, FMT_CHAT,
             <<"C","h","a","t">>, <<"b","o","g","u","s">>, <<>> }
ContextKeys == { "key1", "key2" }
ContextValues == { "value1", "value2" }

\* result values
Self == [kind |-> "self", val |-> <<>>]

(***************************************************************************)
(* PromptBuilder                                                           *)
(***************************************************************************)
\* the dicts a list of references points at
Deref(refs) == [i \in 1..Len(refs) |-> heap[refs[i]]]

\* mutant: self.messages.insert(0, ...) in place of append
Append_message_front(op, role, content) ==
    /\ Len(heap) < MaxObjects
    /\ heap' = Append(heap, [role |-> role, content |-> content])
    /\ messages' = <<Len(heap) + 1>> \o messages
    /\ log' = Append(log, [role |-> role, content |-> content])
    /\ lastOp' = op
    /\ lastArg' = <<role, content>>
    /\ result' = Self
    /\ UNCHANGED <<context, mutations, templateVars>>

\* self.messages.append({"role": role, "content": content}); return self
Append_message(op, role, content) ==
    /\ Len(heap) < MaxObjects
    /\ heap' = Append(heap, [role |-> role, content |-> content])
    /\ messages' = Append(messages, Len(heap) + 1)
    /\ log' = Append(log, [role |-> role, content |-> content])
    /\ lastOp' = op
    /\ lastArg' = <<role, content>>
    /\ result' = Self
    /\ UNCHANGED <<context, mutations, templateVars>>

add_system == \E c \in Contents : Append_message("add_system", SYSTEM, c)

add_user == \E c \in Contents : Append_message("add_user", USER, c)

add_assistant == \E c \in Contents : Append_message("add_assistant", ASSISTANT, c)

add_message == \E r \in CustomRoles, c \in Contents : Append_message("add_message", r, c)

\* mutant: self.context = {key: value}, the other entries are lost
set_context_replace ==
    \E k \in ContextKeys, v \in ContextValues :
        /\ context' = [x \in {k} |-> v]
        /\ lastOp' = "set_context"
        /\ lastArg' = <<k, v>>
        /\ result' = Self
        /\ UNCHANGED <<messages, heap, log, mutations, templateVars>>

set_context ==
    \E k \in ContextKeys, v \in ContextValues :
        /\ context' = [x \in DOMAIN context \cup {k} |-> IF x = k THEN v ELSE context[x]]
        /\ lastOp' = "set_context"
        /\ lastArg' = <<k, v>>
        /\ result' = Self
        /\ UNCHANGED <<messages, heap, log, mutations, templateVars>>

EmptyDict == [x \in {} |-> 0]

\* a dict nothing refers to any more: clear() rebinds self.messages to a new
\* list and hands self to the caller in place of what it held, so every message
\* dict allocated so far is garbage; its slot is blanked, its reference stays used
Unreachable == [role |-> <<>>, content |-> <<>>]

\* mutant: clear() forgets to reset self.context
clear_keep_context ==
    /\ messages' = <<>>
    /\ log' = <<>>
    /\ lastOp' = "clear"
    /\ lastArg' = <<>>
    /\ result' = Self
    /\ heap' = [i \in 1..Len(heap) |-> Unreachable]
    /\ UNCHANGED <<context, mutations, templateVars>>

clear ==
    /\ messages' = <<>>
    /\ context' = EmptyDict
    /\ log' = <<>>
    /\ lastOp' = "clear"
    /\ lastArg' = <<>>
    /\ result' = Self
    /\ heap' = [i \in 1..Len(heap) |-> Unreachable]
    /\ UNCHANGED <<mutations, templateVars>>

\* parts of _build_string: one "<ROLE>: <content>" per message
Parts(refs, h) ==
    [i \in 1..Len(refs) |-> Upper(h[refs[i]].role) \o COLON_SPACE \o h[refs[i]].content]

\* mutant: "\n".join(parts) in place of "\n\n".join(parts)
_build_string_newline(refs, h) == Join(<<"\n">>, Parts(refs, h))

_build_string(refs, h) == Join(SEPARATOR, Parts(refs, h))

\* list.copy(): a new list object holding the same references (a shallow copy);
\* shared tells whether the caller's list is the builder's own list object
list_copy(refs) == [val |-> refs, shared |-> FALSE]

\* {"messages": self.messages.copy()}
_build_chat_format(refs) ==
    [kind |-> "chat", val |-> list_copy(refs).val, shared |-> list_copy(refs).shared]

\* mutant: the error message leaves out the format value
BuildResult_nofmt(fmt, refs, h) ==
    IF fmt = FMT_MESSAGES
    THEN [kind |-> "list", val |-> list_copy(refs).val, shared |-> list_copy(refs).shared]
    ELSE IF fmt = FMT_STRING THEN [kind |-> "str", val |-> _build_string(refs, h)]
    ELSE IF fmt = FMT_CHAT THEN _build_chat_format(refs)
    ELSE [kind |-> "ValueError", val |-> UNKNOWN_FORMAT]

\* what build(format) returns or raises
BuildResult(fmt, refs, h) ==
    IF fmt = FMT_MESSAGES
    THEN [kind |-> "list", val |-> list_copy(refs).val, shared |-> list_copy(refs).shared]
    ELSE IF fmt = FMT_STRING THEN [kind |-> "str", val |-> _build_string(refs, h)]
    ELSE IF fmt = FMT_CHAT THEN _build_chat_format(refs)
    ELSE [kind |-> "ValueError", val |-> UNKNOWN_FORMAT \o fmt]

build ==
    \E fmt \in Formats :
        /\ result' = BuildResult(fmt, messages, heap)
        /\ lastOp' = "build"
        /\ lastArg' = fmt
        /\ UNCHANGED <<builderVars, mutations, templateVars>>

__len__ ==
    /\ result' = [kind |-> "int", val |-> <<Len(messages)>>]
    /\ lastOp' = "len"
    /\ lastArg' = <<>>
    /\ UNCHANGED <<builderVars, mutations, templateVars>>

__str__ ==
    /\ result' = [kind |-> "str", val |-> _build_string(messages, heap)]
    /\ lastOp' = "str"
    /\ lastArg' = <<>>
    /\ UNCHANGED <<builderVars, mutations, templateVars>>

(***************************************************************************)
(* The caller of build: it holds the returned list (or the list inside the *)
(* returned chat record) and may change it or the dicts it refers to.      *)
(***************************************************************************)
HoldsList == result.kind \in {"list", "chat"}

CallerOps == {"caller_append", "caller_remove", "caller_replace",
              "caller_set_role", "caller_set_content"}

\* what the caller writes
X == <<"x">>

\* the caller's list becomes newList; the builder's list follows only if it is
\* the same list object
CallerListUpdate(op, newList) ==
    /\ result' = [result EXCEPT !.val = newList]
    /\ messages' = IF result.shared THEN newList ELSE messages
    /\ lastOp' = op
    /\ lastArg' = <<>>
    /\ mutations' = mutations + 1
    /\ UNCHANGED <<context, log, templateVars>>

\* returned.append({"role": "x", "content": "x"})
caller_append ==
    /\ HoldsList /\ mutations < MaxMutations /\ Len(heap) < MaxObjects
    /\ heap' = Append(heap, [role |-> X, content |-> X])
    /\ CallerListUpdate("caller_append", Append(result.val, Len(heap) + 1))

\* del returned[i]
caller_remove ==
    /\ HoldsList /\ mutations < MaxMutations
    /\ \E i \in 1..Len(result.val) :
          CallerListUpdate("caller_remove",
              SubSeq(result.val, 1, i - 1) \o SubSeq(result.val, i + 1, Len(result.val)))
    /\ UNCHANGED heap

\* returned[i] = returned[j]
caller_replace ==
    /\ HoldsList /\ mutations < MaxMutations
    /\ \E i, j \in 1..Len(result.val) :
          /\ i # j
          /\ CallerListUpdate("caller_replace", [result.val EXCEPT ![i] = result.val[j]])
    /\ UNCHANGED heap

\* returned[i][field] = "x": the dict is the one the builder's list refers to
CallerDictUpdate(op, newHeap) ==
    /\ heap' = newHeap
    /\ lastOp' = op
    /\ lastArg' = <<>>
    /\ mutations' = mutations + 1
    /\ UNCHANGED <<messages, context, log, templateVars, result>>

caller_set_role ==
    /\ HoldsList /\ mutations < MaxMutations
    /\ \E i \in 1..Len(result.val) :
          CallerDictUpdate("caller_set_role", [heap EXCEPT ![result.val[i]].role = X])

caller_set_content ==
    /\ HoldsList /\ mutations < MaxMutations
    /\ \E i \in 1..Len(result.val) :
          CallerDictUpdate("caller_set_content", [heap EXCEPT ![result.val[i]].content = X])

\* PromptBuilder() ; no template in play
Init ==
    /\ messages = <<>>
    /\ context = EmptyDict
    /\ heap = <<>>
    /\ log = <<>>
    /\ mutations = 0
    /\ template = <<>>
    /\ defaults = EmptyDict
    /\ ctor = [template |-> <<>>, defaults |-> EmptyDict]
    /\ overridden = FALSE
    /\ lastOp = "init"
    /\ lastArg = <<>>
    /\ result = Self

Next ==
    \/ add_system
    \/ add_user
    \/ add_assistant
    \/ add_message
    \/ set_context
    \/ clear
    \/ build
    \/ __len__
    \/ __str__

Spec == Init /\ [][Next]_vars

CallerNext ==
    \/ caller_append
    \/ caller_remove
    \/ caller_replace
    \/ caller_set_role
    \/ caller_set_content

NextWithCaller == Next \/ CallerNext

SpecCaller == Init /\ [][NextWithCaller]_vars

(***************************************************************************)
(* Properties of PromptBuilder                                             *)
(***************************************************************************)
\* a list as the caller sees it: the dicts, not the references
View(refs, h) == [i \in 1..Len(refs) |-> h[refs[i]]]

\* C1: after any interleaving of the builder's operations, len(builder) is the
\* number of add_* / add_message calls since construction or the last clear(),
\* and build("messages") lists exactly the (role, content) pairs passed, in
\* call order, repeated messages included.
C1_CountAndOrder ==
    /\ Len(messages) = Len(log)
    /\ View(messages, heap) = log
    /\ (lastOp = "len" => result.kind = "int" /\ result.val = <<Len(log)>>)
    /\ (lastOp = "build" /\ lastArg = FMT_MESSAGES =>
            result.kind = "list" /\ View(result.val, heap) = log)
    /\ (lastOp = "add_system" => log[Len(log)].role = SYSTEM)
    /\ (lastOp = "add_user" => log[Len(log)].role = USER)
    /\ (lastOp = "add_assistant" => log[Len(log)].role = ASSISTANT)

\* a build("messages") of two equal messages added after a clear()
C1_Witness ==
    /\ lastOp = "build" /\ lastArg = FMT_MESSAGES
    /\ Len(log) = 2 /\ log[1] = log[2]
    /\ Len(heap) > Len(log)
    /\ Len(result.val) = 2

\* C2: no change the caller makes to the list build("messages") returned, to the
\* list inside the record build("chat") returned, or to a message record held in
\* it, changes the builder's message sequence as a later build shows it.
C2_DefensiveCopy ==
    [][lastOp' \in CallerOps =>
          /\ View(messages', heap') = View(messages, heap)
          /\ \A fmt \in Formats :
                BuildResult(fmt, messages', heap') = BuildResult(fmt, messages, heap)]_vars

\* C7: build with a format other than "messages", "string", "chat" raises a
\* ValueError whose message contains the format value, in every builder state,
\* and build (in any format), len and str leave messages and context as they were.
Recognised == {FMT_MESSAGES, FMT_STRING, FMT_CHAT}

C7_InvalidFormat ==
    [][/\ (lastOp' = "build" /\ lastArg' \notin Recognised) =>
              (result'.kind = "ValueError" /\ Contains(result'.val, lastArg'))
       /\ (lastOp' = "build" /\ lastArg' \in Recognised) => result'.kind # "ValueError"
       /\ lastOp' \in {"build", "len", "str"} =>
              (messages' = messages /\ context' = context /\ heap' = heap)]_vars

\* build("bogus") has failed on a builder holding messages and context
C7_Witness ==
    /\ lastOp = "build" /\ lastArg = <<"b","o","g","u","s">>
    /\ result.kind = "ValueError"
    /\ Len(messages) > 0 /\ DOMAIN context # {}

\* what a build result shows: the dicts in place of the references
Observed(r, h) == IF r.kind \in {"list", "chat"} THEN [kind |-> r.kind, val |-> View(r.val, h)] ELSE r

\* C8: clear() leaves an empty message sequence, count 0 and an empty context
\* and returns the builder; from then on the builder builds what a fresh
\* builder given the same later additions builds.
C8_ClearResets ==
    /\ lastOp = "clear" =>
          (messages = <<>> /\ Len(messages) = 0 /\ context = EmptyDict /\ result = Self)
    /\ \A fmt \in Formats :
          Observed(BuildResult(fmt, messages, heap), heap)
            = Observed(BuildResult(fmt, [i \in 1..Len(log) |-> i], log), log)

\* a chat build of a message added after clearing a builder that held messages
C8_Witness ==
    /\ lastOp = "build" /\ lastArg = FMT_CHAT
    /\ Len(heap) > Len(log) /\ Len(log) > 0
    /\ result.kind = "chat" /\ Len(result.val) = Len(log)

\* the upper-cased label of each role in use
RoleLabel(role) ==
    CASE role = SYSTEM -> <<"S","Y","S","T","E","M">>
      [] role = USER -> <<"U","S","E","R">>
      [] role = ASSISTANT -> <<"A","S","S","I","S","T","A","N","T">>
      [] role = <<"B","o","t">> -> <<"B","O","T">>

RECURSIVE Rendered(_)
\* "<ROLE>: <content>" per message, "\n\n" between consecutive ones only
Rendered(ms) ==
    IF ms = <<>> THEN <<>>
    ELSE RoleLabel(ms[1].role) \o <<":"," ">> \o ms[1].content
         \o (IF Len(ms) > 1 THEN <<"\n","\n">> \o Rendered(Tail(ms)) ELSE <<>>)

\* C9: build("string") is the messages in insertion order, each rendered as
\* upper-cased role + ": " + content, joined by exactly "\n\n" with no leading
\* or trailing separator (empty builder: empty string), and str(builder) is the
\* same string.
C9_StringFormat ==
    (lastOp = "str" \/ (lastOp = "build" /\ lastArg = FMT_STRING)) =>
        /\ result.kind = "str"
        /\ result.val = Rendered(log)
        /\ result = BuildResult(FMT_STRING, messages, heap)

\* str(builder) on a custom-role message followed by another message
C9_Witness ==
    /\ lastOp = "str"
    /\ Len(log) >= 2 /\ log[1].role = <<"B","o","t">>
    /\ result.kind = "str" /\ Len(result.val) > 0

AddOps == {"add_system", "add_user", "add_assistant", "add_message"}

\* what build(fmt), len and str give for the messages ms, whatever the context
FromMessages(op, fmt, ms) ==
    IF op = "len" THEN [kind |-> "int", val |-> <<Len(ms)>>]
    ELSE IF op = "str" \/ fmt = FMT_STRING THEN [kind |-> "str", val |-> Rendered(ms)]
    ELSE IF fmt = FMT_MESSAGES THEN [kind |-> "list", val |-> ms]
    ELSE IF fmt = FMT_CHAT THEN [kind |-> "chat", val |-> ms]
    ELSE [kind |-> "ValueError", val |-> UNKNOWN_FORMAT \o fmt]

\* C11: set_context(key, value) inserts or overwrites that key only, leaves the
\* messages and the count as they were and returns the builder; add_* and
\* add_message leave the context as it was; what build (every format), str and
\* len give is a function of the message sequence alone, the same whatever the
\* context holds.
C11_ContextIndependent ==
    [][/\ lastOp' = "set_context" =>
              /\ lastArg'[1] \in DOMAIN context' /\ context'[lastArg'[1]] = lastArg'[2]
              /\ DOMAIN context' = DOMAIN context \cup {lastArg'[1]}
              /\ \A x \in DOMAIN context : x # lastArg'[1] => context'[x] = context[x]
              /\ messages' = messages /\ heap' = heap /\ Len(messages') = Len(messages)
              /\ result' = Self
       /\ lastOp' \in AddOps => context' = context
       /\ lastOp' \in {"build", "len", "str"} =>
              Observed(result', heap') = FromMessages(lastOp', lastArg', View(messages', heap'))]_vars

\* set_context has set key1 on a builder that holds messages and a key2 entry
C11_Witness ==
    /\ lastOp = "set_context" /\ lastArg = <<"key1", "value2">>
    /\ DOMAIN context = {"key1", "key2"}
    /\ context["key1"] = "value2"
    /\ Len(messages) > 0

(***************************************************************************)
(* PromptTemplate                                                          *)
(***************************************************************************)
MISSING_VARIABLE == <<"M","i","s","s","i","n","g"," ","r","e","q","u","i","r","e","d"," ","t","e","m","p","l","a","t","e"," ","v","a","r","i","a","b","l","e",":"," ">>
SINGLE_CLOSE == <<"S","i","n","g","l","e"," ","'","}","'"," ","e","n","c","o","u","n","t","e","r","e","d"," ","i","n"," ","f","o","r","m","a","t"," ","s","t","r","i","n","g">>
SINGLE_OPEN == <<"S","i","n","g","l","e"," ","'","{","'"," ","e","n","c","o","u","n","t","e","r","e","d"," ","i","n"," ","f","o","r","m","a","t"," ","s","t","r","i","n","g">>
UNEXPECTED_OPEN == <<"u","n","e","x","p","e","c","t","e","d"," ","'","{","'"," ","i","n"," ","f","i","e","l","d"," ","n","a","m","e">>
EXPECTED_CLOSE == <<"e","x","p","e","c","t","e","d"," ","'","}","'"," ","b","e","f","o","r","e"," ","e","n","d"," ","o","f"," ","s","t","r","i","n","g">>
INDEX_RANGE == <<"R","e","p","l","a","c","e","m","e","n","t"," ","i","n","d","e","x"," ","0"," ","o","u","t"," ","o","f"," ","r","a","n","g","e"," ","f","o","r"," ","p","o","s","i","t","i","o","n","a","l"," ","a","r","g","s"," ","t","u","p","l","e">>

\* Python values given as defaults and overrides: a str or a non-negative int
StrValue(s) == [isInt |-> FALSE, int |-> 0, str |-> s]
IntValue(n) == [isInt |-> TRUE, int |-> n, str |-> <<>>]

DigitChars == <<"0","1","2","3","4","5","6","7","8","9">>

RECURSIVE IntToStr(_)
\* str(n) for n >= 0
IntToStr(n) ==
    IF n < 10 THEN <<DigitChars[n + 1]>>
    ELSE IntToStr(n \div 10) \o <<DigitChars[(n % 10) + 1]>>

\* format(value, ""), which is str(value)
PyStr(v) == IF v.isInt THEN IntToStr(v.int) ELSE v.str

\* repr(key) of a str without quotes or backslashes, as str(KeyError(key)) shows it
PyRepr(key) == <<"'">> \o key \o <<"'">>

\* the characters the enumerated templates are made of
Alphabet == {"{", "}", "a", "b"}
\* variable names given as defaults and overrides
Keys == { <<"a">>, <<"b">> }
Values == { StrValue(<<"u">>), IntValue(30) }
\* the mappings given as defaults and as overrides
Maps == UNION { [K -> Values] : K \in SUBSET Keys }

\* templates beyond the enumerated length: two placeholders, a repeated
\* placeholder, text around a placeholder, doubled braces
TemplateSamples ==
    { <<"{","a","}","{","b","}">>,
      <<"{","a","}","-","{","a","}">>,
      <<"H","i"," ","{","a","}","\n">>,
      <<"{","{","a","}","}">>,
      <<"{","b","}","}","{","a","}">> }

Templates == UNION { [1..n -> Alphabet] : n \in 0..MaxTemplateLen } \cup TemplateSamples

\* mutant: {**kwargs, **self.defaults}, the defaults win
Merge_defaults_win(d, kwargs) ==
    [k \in DOMAIN d \cup DOMAIN kwargs |-> IF k \in DOMAIN d THEN d[k] ELSE kwargs[k]]

\* {**self.defaults, **kwargs}
Merge(d, kwargs) ==
    [k \in DOMAIN d \cup DOMAIN kwargs |-> IF k \in DOMAIN kwargs THEN kwargs[k] ELSE d[k]]

RECURSIVE FieldEnd(_, _)
\* str.format, parse_field: from position k inside a replacement field, the
\* position of the closing brace; 0 when a "{" comes first, -1 at end of string
FieldEnd(t, k) ==
    IF k > Len(t) THEN -1
    ELSE IF t[k] = "{" THEN 0
    ELSE IF t[k] = "}" THEN k
    ELSE FieldEnd(t, k + 1)

\* position of the first brace of t at or after i, Len(t) + 1 if there is none
NextBrace(t, i) ==
    LET braces == { k \in i..Len(t) : t[k] \in {"{", "}"} }
    IN  IF braces = {} THEN Len(t) + 1
        ELSE CHOOSE k \in braces : \A j \in braces : k <= j

RECURSIVE PyFormat(_, _, _, _)
\* str.format(**variables) from position i with the output so far: literal text
\* up to the next brace, "{{" and "}}" escapes, then a replacement field looked
\* up by name. Templates hold no "!", ":", ".", "[" and no digits inside braces.
PyFormat(t, i, variables, out) ==
    LET b == NextBrace(t, i)
        literal == out \o SubSeq(t, i, b - 1)
    IN  IF b > Len(t) THEN [kind |-> "str", val |-> literal]
        ELSE IF t[b] = "}" THEN
            IF b < Len(t) /\ t[b + 1] = "}"
            THEN PyFormat(t, b + 2, variables, Append(literal, "}"))
            ELSE [kind |-> "ValueError", val |-> SINGLE_CLOSE]
        ELSE IF b = Len(t) THEN [kind |-> "ValueError", val |-> SINGLE_OPEN]
        ELSE IF t[b + 1] = "{"
        THEN PyFormat(t, b + 2, variables, Append(literal, "{"))
        ELSE LET k == FieldEnd(t, b + 1)
                 name == SubSeq(t, b + 1, k - 1)
             IN  IF k = 0 THEN [kind |-> "ValueError", val |-> UNEXPECTED_OPEN]
                 ELSE IF k = -1 THEN [kind |-> "ValueError", val |-> EXPECTED_CLOSE]
                 ELSE IF name = <<>> THEN [kind |-> "IndexError", val |-> INDEX_RANGE]
                 ELSE IF name \notin DOMAIN variables THEN [kind |-> "KeyError", val |-> name]
                 ELSE PyFormat(t, k + 1, variables, literal \o PyStr(variables[name]))

\* mutant: the KeyError of str.format is not turned into the ValueError
FormatResult_nocatch(t, d, kwargs) == PyFormat(t, 1, Merge(d, kwargs), <<>>)

\* PromptTemplate.format: what it returns or raises
FormatResult(t, d, kwargs) ==
    LET variables == Merge(d, kwargs)
        r == PyFormat(t, 1, variables, <<>>)
    IN  IF r.kind = "KeyError"
        THEN [kind |-> "ValueError", val |-> MISSING_VARIABLE \o PyRepr(r.val)]
        ELSE r

RECURSIVE NextClose(_, _)
\* position of the first "}" at or after k, 0 if there is none
NextClose(t, k) ==
    IF k > Len(t) THEN 0
    ELSE IF t[k] = "}" THEN k
    ELSE NextClose(t, k + 1)

RECURSIVE FindAll(_, _)
\* re.findall(r'\{([^}]+)\}', t) from position i: leftmost non-overlapping
\* matches, each "{", one or more characters other than "}", then "}"
FindAll(t, i) ==
    IF i > Len(t) THEN <<>>
    ELSE LET k == NextClose(t, i + 1)
         IN  IF t[i] = "{" /\ k > i + 1
             THEN <<SubSeq(t, i + 1, k - 1)>> \o FindAll(t, k + 1)
             ELSE FindAll(t, i + 1)

get_variables(t) == FindAll(t, 1)

\* set(seq)
ToSet(seq) == { seq[i] : i \in 1..Len(seq) }

\* mutant: validate looks at the overrides only
ValidateResult_kwargs_only(t, d, kwargs) ==
    [kind |-> "bool", val |-> ToSet(get_variables(t)) \subseteq DOMAIN kwargs]

\* PromptTemplate.validate: what it returns
ValidateResult(t, d, kwargs) ==
    LET variables == Merge(d, kwargs)
        required_vars == ToSet(get_variables(t))
        provided_vars == DOMAIN variables
    IN  [kind |-> "bool", val |-> required_vars \subseteq provided_vars]

(***************************************************************************)
(* PromptLibrary                                                           *)
(***************************************************************************)
Factories == {"question_answer", "summarization", "translation",
              "code_generation", "classification"}

BODY_QUESTION_ANSWER ==
    <<"P","l","e","a","s","e"," ","a","n","s","w","e","r"," ","t","h","e"," ","f","o","l","l","o","w","i","n","g"," ","q","u","e","s","t","i","o","n",":","\n","\n","Q","u","e","s","t","i","o","n",":"," ","{","q","u","e","s","t","i","o","n","}","\n","\n","A","n","s","w","e","r",":">>

BODY_SUMMARIZATION ==
    <<"P","l","e","a","s","e"," ","s","u","m","m","a","r","i","z","e"," ","t","h","e"," ","f","o","l","l","o","w","i","n","g"," ","t","e","x","t",":","\n","\n","{","t","e","x","t","}","\n","\n","S","u","m","m","a","r","y",":">>

BODY_TRANSLATION ==
    <<"T","r","a","n","s","l","a","t","e"," ","t","h","e"," ","f","o","l","l","o","w","i","n","g"," ","t","e","x","t"," ","f","r","o","m"," ","{","s","o","u","r","c","e","_","l","a","n","g","}"," ","t","o"," ","{","t","a","r","g","e","t","_","l","a","n","g","}",":","\n","\n","{","t","e","x","t","}","\n","\n","T","r","a","n","s","l","a","t","i","o","n",":">>

BODY_CODE_GENERATION ==
    <<"G","e","n","e","r","a","t","e"," ","{","l","a","n","g","u","a","g","e","}"," ","c","o","d","e"," ","f","o","r"," ","t","h","e"," ","f","o","l","l","o","w","i","n","g"," ","t","a","s","k",":","\n","\n","{","t","a","s","k","}","\n","\n","C","o","d","e",":">>

BODY_CLASSIFICATION ==
    <<"C","l","a","s","s","i","f","y"," ","t","h","e"," ","f","o","l","l","o","w","i","n","g"," ","t","e","x","t"," ","i","n","t","o"," ","o","n","e"," ","o","f"," ","t","h","e","s","e"," ","c","a","t","e","g","o","r","i","e","s",":"," ","{","c","a","t","e","g","o","r","i","e","s","}","\n","\n","T","e","x","t",":"," ","{","t","e","x","t","}","\n","\n","C","a","t","e","g","o","r","y",":">>

\* the template string each factory passes to PromptTemplate
Body(f) ==
    CASE f = "question_answer" -> BODY_QUESTION_ANSWER
      [] f = "summarization" -> BODY_SUMMARIZATION
      [] f = "translation" -> BODY_TRANSLATION
      [] f = "code_generation" -> BODY_CODE_GENERATION
      [] f = "classification" -> BODY_CLASSIFICATION

\* mutant: the factory gives its template a default for "text"
PromptLibrary_with_default(f) ==
    [template |-> Body(f), defaults |-> [k \in {<<"t","e","x","t">>} |-> StrValue(<<"u">>)]]

\* PromptLibrary.<f>(): a new PromptTemplate(body), no defaults
PromptLibrary(f) == [template |-> Body(f), defaults |-> EmptyDict]

\* the variable names the callers of the library templates pass
LibraryKeys == { <<"q","u","e","s","t","i","o","n">>,
                 <<"t","e","x","t">>,
                 <<"s","o","u","r","c","e","_","l","a","n","g">>,
                 <<"t","a","r","g","e","t","_","l","a","n","g">>,
                 <<"l","a","n","g","u","a","g","e">>,
                 <<"t","a","s","k">>,
                 <<"c","a","t","e","g","o","r","i","e","s">> }

\* the overrides passed to format and validate: for a library template, values
\* for any of the names its body mentions; else the mappings over Keys
Overrides(t) ==
    IF \E f \in Factories : Body(f) = t
    THEN UNION { [K -> Values] : K \in SUBSET { k \in LibraryKeys : Contains(t, <<"{">> \o k \o <<"}">>) } }
    ELSE Maps

TemplateCall(op, arg) ==
    /\ lastOp' = op
    /\ lastArg' = arg
    /\ overridden' = (overridden \/ (DOMAIN lastArg # {} /\ lastOp \in {"format", "validate"}))
    /\ UNCHANGED <<builderVars, mutations>>

\* mutant: format keeps the overrides, self.defaults.update(kwargs)
format_persisting ==
    \E kwargs \in Overrides(template) :
        /\ result' = FormatResult(template, defaults, kwargs)
        /\ TemplateCall("format", kwargs)
        /\ defaults' = Merge(defaults, kwargs)
        /\ UNCHANGED <<template, ctor>>

format ==
    \E kwargs \in Overrides(template) :
        /\ result' = FormatResult(template, defaults, kwargs)
        /\ TemplateCall("format", kwargs)
        /\ UNCHANGED <<template, defaults, ctor>>

validate ==
    \E kwargs \in Overrides(template) :
        /\ result' = ValidateResult(template, defaults, kwargs)
        /\ TemplateCall("validate", kwargs)
        /\ UNCHANGED <<template, defaults, ctor>>

variables_ ==
    /\ result' = [kind |-> "list", val |-> get_variables(template)]
    /\ TemplateCall("get_variables", EmptyDict)
    /\ UNCHANGED <<template, defaults, ctor>>

template__str__ ==
    /\ result' = [kind |-> "str", val |-> template]
    /\ TemplateCall("template_str", EmptyDict)
    /\ UNCHANGED <<template, defaults, ctor>>

(***************************************************************************)
(* Properties of PromptTemplate                                            *)
(***************************************************************************)
Brace(c) == c \in {"{", "}"}

\* the identifiers of the placeholders of t: the non-empty brace-free texts
\* between a "{" and the next "}"
PlaceholderIds(t) ==
    { SubSeq(t, i + 1, k - 1) : <<i, k>> \in
        { p \in (1..Len(t)) \X (1..Len(t)) :
            /\ p[2] >= p[1] + 2
            /\ t[p[1]] = "{" /\ t[p[2]] = "}"
            /\ \A j \in (p[1] + 1)..(p[2] - 1) : ~Brace(t[j]) } }

\* every brace of t belongs to a placeholder {identifier}
OnlyPlaceholders(t) ==
    \A i \in 1..Len(t) :
        /\ t[i] = "{" => \E k \in (i + 2)..Len(t) :
                            t[k] = "}" /\ \A j \in (i + 1)..(k - 1) : ~Brace(t[j])
        /\ t[i] = "}" => \E k \in 1..(i - 2) :
                            t[k] = "{" /\ \A j \in (k + 1)..(i - 1) : ~Brace(t[j])

\* the effective value of a key: the override if there is one, else the default
Effective(d, o, id) == IF id \in DOMAIN o THEN o[id] ELSE d[id]

\* the text of each value in use
ValueText(v) == IF v = IntValue(30) THEN <<"3","0">> ELSE v.str

RECURSIVE Closing(_, _)
\* the first "}" after position i, Len(t) + 1 if there is none
Closing(t, i) == IF i >= Len(t) \/ t[i + 1] = "}" THEN i + 1 ELSE Closing(t, i + 1)

RECURSIVE Substituted(_, _, _, _)
\* t from position i on with each {identifier} whose identifier has an
\* effective value replaced by the text of that value, all else verbatim
Substituted(t, i, d, o) ==
    IF i > Len(t) THEN <<>>
    ELSE LET k == Closing(t, i)
             id == SubSeq(t, i + 1, k - 1)
         IN  IF t[i] = "{" /\ k <= Len(t) /\ id \in DOMAIN d \cup DOMAIN o
             THEN ValueText(Effective(d, o, id)) \o Substituted(t, k + 1, d, o)
             ELSE <<t[i]>> \o Substituted(t, i + 1, d, o)

Uncovered(t, d, o) == { id \in PlaceholderIds(t) : id \notin DOMAIN d \cup DOMAIN o }

\* the error format raises for a missing variable
IsMissingVariable(r) ==
    /\ r.kind = "ValueError"
    /\ Len(r.val) >= Len(MISSING_VARIABLE)
    /\ SubSeq(r.val, 1, Len(MISSING_VARIABLE)) = MISSING_VARIABLE

\* C3 as stated: for every template, a format that succeeds returns the
\* template with every {identifier} replaced by the text of its effective value
\* (override over default), and keys without a placeholder raise nothing.
C3_FormatSubstitutes ==
    lastOp = "format" =>
        /\ result.kind = "str" => result.val = Substituted(template, 1, defaults, lastArg)
        /\ Uncovered(template, defaults, lastArg) = {} => result.kind = "str"

\* C3 as amended: the same for every template in which each brace belongs to a
\* placeholder {identifier}.
C3_FormatSubstitutes_Amended ==
    (lastOp = "format" /\ OnlyPlaceholders(template)) =>
        /\ result.kind = "str" => result.val = Substituted(template, 1, defaults, lastArg)
        /\ Uncovered(template, defaults, lastArg) = {} => result.kind = "str"

\* "{a}{b}" formatted with defaults for a and b and a different override for a
C3_Witness ==
    /\ lastOp = "format"
    /\ template = <<"{","a","}","{","b","}">>
    /\ DOMAIN defaults = Keys /\ DOMAIN lastArg = {<<"a">>}
    /\ lastArg[<<"a">>] # defaults[<<"a">>]
    /\ result.kind = "str"

\* C4 as stated: for every template, format raises the missing-variable
\* ValueError, naming a missing identifier, exactly when some placeholder
\* identifier is a key of neither defaults nor overrides; otherwise it returns
\* the string.
C4_MissingVariable ==
    lastOp = "format" =>
        IF Uncovered(template, defaults, lastArg) # {}
        THEN \E id \in Uncovered(template, defaults, lastArg) :
                result = [kind |-> "ValueError", val |-> MISSING_VARIABLE \o <<"'">> \o id \o <<"'">>]
        ELSE ~IsMissingVariable(result)

\* C4 as amended: the same for every template in which each brace belongs to a
\* placeholder {identifier}; there the call returns a string or raises that error.
C4_MissingVariable_Amended ==
    (lastOp = "format" /\ OnlyPlaceholders(template)) =>
        IF Uncovered(template, defaults, lastArg) # {}
        THEN \E id \in Uncovered(template, defaults, lastArg) :
                result = [kind |-> "ValueError", val |-> MISSING_VARIABLE \o <<"'">> \o id \o <<"'">>]
        ELSE result.kind = "str"

\* "{a}{b}" formatted with a value for a only: the error names b
C4_Witness ==
    /\ lastOp = "format"
    /\ template = <<"{","a","}","{","b","}">>
    /\ DOMAIN defaults \cup DOMAIN lastArg = {<<"a">>}
    /\ IsMissingVariable(result)

\* C5: for every template, defaults and overrides, validate returns true
\* exactly when format with the same overrides completes, and false exactly
\* when format raises the missing-variable error.
C5_ValidateProbesFormat ==
    lastOp = "validate" =>
        /\ result.val = (FormatResult(template, defaults, lastArg).kind = "str")
        /\ (~result.val) = IsMissingVariable(FormatResult(template, defaults, lastArg))

\* C6: after any calls of format, validate, get_variables and str, the
\* template string and the defaults are those given at construction, and what
\* format and validate return depends only on them and on the overrides of
\* that call, never on the overrides of earlier calls.
C6_DefaultsImmutable ==
    /\ template = ctor.template
    /\ defaults = ctor.defaults
    /\ lastOp = "format" => result = FormatResult(ctor.template, ctor.defaults, lastArg)
    /\ lastOp = "validate" => result = ValidateResult(ctor.template, ctor.defaults, lastArg)

\* format() returns the text with the default after an earlier call had overrides
C6_Witness ==
    /\ overridden
    /\ lastOp = "format" /\ lastArg = EmptyDict
    /\ template = <<"H","i"," ","{","a","}","\n">>
    /\ <<"a">> \in DOMAIN defaults
    /\ result.kind = "str"

\* C10: validate returns a boolean and raises nothing for every template
\* (no placeholder, repeated placeholders, unbalanced braces), the boolean is
\* true exactly when every identifier of get_variables() is a key of the
\* defaults or of the overrides, and the template and defaults stay as they were.
C10_ValidateTotal ==
    lastOp = "validate" =>
        /\ result.kind = "bool"
        /\ result.val \in BOOLEAN
        /\ result.val = (\A i \in 1..Len(get_variables(template)) :
                            get_variables(template)[i] \in DOMAIN defaults \cup DOMAIN lastArg)
        /\ template = ctor.template
        /\ defaults = ctor.defaults

\* validate has answered false on a template with unbalanced braces and a default
C10_Witness ==
    /\ lastOp = "validate"
    /\ result = [kind |-> "bool", val |-> FALSE]
    /\ ~OnlyPlaceholders(template)
    /\ get_variables(template) # <<>>
    /\ DOMAIN defaults # {}

\* PromptTemplate(template, **defaults) ; no builder in play
InitTemplate ==
    /\ messages = <<>>
    /\ context = EmptyDict
    /\ heap = <<>>
    /\ log = <<>>
    /\ mutations = 0
    /\ template \in Templates
    /\ defaults \in Maps
    /\ ctor = [template |-> template, defaults |-> defaults]
    /\ overridden = FALSE
    /\ lastOp = "init"
    /\ lastArg = EmptyDict
    /\ result = Self

NextTemplate ==
    \/ format
    \/ validate
    \/ variables_
    \/ template__str__

SpecTemplate == InitTemplate /\ [][NextTemplate]_vars

(***************************************************************************)
(* PromptLibrary: calls and properties                                     *)
(***************************************************************************)
\* a call of one of the factories: the caller goes on with the new instance
library_call ==
    \E f \in Factories :
        /\ template' = PromptLibrary(f).template
        /\ defaults' = PromptLibrary(f).defaults
        /\ ctor' = PromptLibrary(f)
        /\ result' = [kind |-> "template", val |-> <<f>>]
        /\ TemplateCall("factory", EmptyDict)

\* the first call of a factory ; no builder in play
InitLibrary ==
    /\ messages = <<>>
    /\ context = EmptyDict
    /\ heap = <<>>
    /\ log = <<>>
    /\ mutations = 0
    /\ \E f \in Factories :
          /\ template = PromptLibrary(f).template
          /\ defaults = PromptLibrary(f).defaults
          /\ ctor = PromptLibrary(f)
          /\ result = [kind |-> "template", val |-> <<f>>]
    /\ overridden = FALSE
    /\ lastOp = "factory"
    /\ lastArg = EmptyDict

NextLibrary ==
    \/ library_call
    \/ format
    \/ validate
    \/ variables_
    \/ template__str__

SpecLibrary == InitLibrary /\ [][NextLibrary]_vars

\* the documented required variables of each factory's template
Required(f) ==
    CASE f = "question_answer" -> { <<"q","u","e","s","t","i","o","n">> }
      [] f = "summarization" -> { <<"t","e","x","t">> }
      [] f = "translation" -> { <<"s","o","u","r","c","e","_","l","a","n","g">>, <<"t","a","r","g","e","t","_","l","a","n","g">>, <<"t","e","x","t">> }
      [] f = "code_generation" -> { <<"l","a","n","g","u","a","g","e">>, <<"t","a","s","k">> }
      [] f = "classification" -> { <<"c","a","t","e","g","o","r","i","e","s">>, <<"t","e","x","t">> }

\* the factory a library template came from
FactoryOf(t) == CHOOSE f \in Factories : Body(f) = t

\* C12: every call of a catalog factory gives a new template with no defaults
\* whose placeholders are exactly the documented required variables; format
\* succeeds and contains every supplied value verbatim when all of them are
\* supplied and raises the missing-variable error, naming an omitted one, when
\* any is omitted; what an instance renders depends on the factory and the
\* inputs only, not on earlier instances or calls.
C12_Catalog ==
    LET f == FactoryOf(template)
        missing == Required(f) \ DOMAIN lastArg
    IN  /\ defaults = EmptyDict
        /\ PlaceholderIds(template) = Required(f)
        /\ ToSet(get_variables(template)) = Required(f)
        /\ lastOp = "factory" => result.val = <<f>>
        /\ lastOp = "format" =>
              /\ IF missing = {}
                 THEN /\ result.kind = "str"
                      /\ \A k \in Required(f) : Contains(result.val, ValueText(lastArg[k]))
                 ELSE \E k \in missing :
                        result = [kind |-> "ValueError",
                                  val |-> MISSING_VARIABLE \o <<"'">> \o k \o <<"'">>]
              /\ result = FormatResult(Body(f), EmptyDict, lastArg)

\* the translation template formatted with its three variables, after an
\* earlier call was given overrides
C12_Witness ==
    /\ lastOp = "format"
    /\ template = BODY_TRANSLATION
    /\ DOMAIN lastArg = Required("translation")
    /\ lastArg[<<"t","e","x","t">>] = IntValue(30)
    /\ overridden
    /\ result.kind = "str"

====
